---- MODULE Spec2Model ----
(***************************************************************************)
(* Model of app.py: the multi-tenant dashboard core.  The five SQLite      *)
(* tables are sequences of rows kept in id order (AUTOINCREMENT ids only   *)
(* grow, so the position in the sequence is the order of the ids).  Every  *)
(* handler is one action: between two awaits the handler's code runs       *)
(* without interruption on the event loop, and the only awaits are the     *)
(* reading of the request body and the outbound HTTP calls.                *)
(***************************************************************************)
EXTENDS Integers, Sequences, FiniteSets, TLC

\* ------------------------------------------------------------------ bounds
\* number of transport calls the model lets the handlers issue
MaxSends == 2
\* longest "templates" list of one Save templates request
MaxEntries == 2
\* template rows the table may hold beside the seeded ones
MaxExtraRows == 2
\* event-log entries the model lets the webhook append
MaxEvents == 2
\* pieces a template body of the preview is put together from
MaxPieces == 3

\* ------------------------------------------------------------- Python values
\* SQL NULL / Python None, as a string no input is equal to
NULL == "<None>"
\* Python truthiness of a str-or-None value: None and "" are falsy
Truthy(x) == x # NULL /\ x # ""
\* Python's "a or b" on such values
Or(a, b) == IF Truthy(a) THEN a ELSE b

\* a text as a sequence of characters, for the two fields the code strips
Absent == << "<None>" >>
IsSpace(c) == c = " "
RECURSIVE LStrip(_)
LStrip(s) == IF s # << >> /\ IsSpace(Head(s)) THEN LStrip(Tail(s)) ELSE s
RECURSIVE RStrip(_)
RStrip(s) == IF s # << >> /\ IsSpace(s[Len(s)]) THEN RStrip(SubSeq(s, 1, Len(s) - 1)) ELSE s
\* no strip at all
NoStrip(s) == s
\* str.strip()
Strip(s) == RStrip(LStrip(s))
\* (body.get(k) or "") on a text field
OrEmpty(s) == IF s = Absent THEN << >> ELSE s

\* str(int) of a non-negative integer, as its decimal digits
Digit(d) == CASE d = 0 -> "0" [] d = 1 -> "1" [] d = 2 -> "2" [] d = 3 -> "3"
              [] d = 4 -> "4" [] d = 5 -> "5" [] d = 6 -> "6" [] d = 7 -> "7"
              [] d = 8 -> "8" [] d = 9 -> "9"
RECURSIVE PyStr(_)
PyStr(n) == IF n < 10 THEN << Digit(n) >> ELSE Append(PyStr(n \div 10), Digit(n % 10))

\* ------------------------------------------------------------ program data
EventKinds == { "order_created", "order_paid", "order_fulfilled", "out_for_delivery",
                "delivered", "order_canceled", "refund_created" }

\* DEFAULT_SETTINGS["enabled"]
DefaultEnabled == [k \in EventKinds |-> TRUE]
DefaultRateLimit == 60
DEFAULT_SETTINGS == [enabled |-> DefaultEnabled, rate_limit_mps |-> DefaultRateLimit]

\* DEFAULT_TEMPLATES, in list order; the Arabic texts are abbreviated
DEFAULT_TEMPLATES ==
  << [tkey |-> "order_created",    display_name |-> "dn:order_created",    body |-> "{name} body:order_created #{order_no} {order_url}"],
     [tkey |-> "order_paid",       display_name |-> "dn:order_paid",       body |-> "{name} body:order_paid #{order_no}"],
     [tkey |-> "order_fulfilled",  display_name |-> "dn:order_fulfilled",  body |-> "{name} body:order_fulfilled #{order_no} {tracking_no}"],
     [tkey |-> "out_for_delivery", display_name |-> "dn:out_for_delivery", body |-> "{name} body:out_for_delivery #{order_no}"],
     [tkey |-> "delivered",        display_name |-> "dn:delivered",        body |-> "{name} body:delivered #{order_no}"],
     [tkey |-> "order_canceled",   display_name |-> "dn:order_canceled",   body |-> "body:order_canceled #{order_no}"],
     [tkey |-> "refund_created",   display_name |-> "dn:refund_created",   body |-> "body:refund_created #{order_no}"] >>

\* the sentinel template identifier of an ad-hoc send
ManualTest == "manual_test"

\* json.dumps / json.loads of a settings object: string keys, booleans and an
\* integer, which JSON carries unchanged
JsonDumps(v) == [json |-> v]
JsonLoads(s) == s.json

\* --------------------------------------------------------------- the tables
\* hash(access_tok): Python's str hash is fixed within one process and may be
\* negative; two tokens may collide modulo HashModulus
HashModulus == 999999
PyHash(tok) == CASE tok = "tokA" -> 5
                 [] tok = "tokB" -> 0 - 999992
                 [] tok = "tokC" -> 1000004
                 [] tok = "tokD" -> 9
\* f"store-{n}"
FormatStoreId(n) == CASE n = 5 -> "store-5" [] n = 7 -> "store-7" [] n = 9 -> "store-9"
\* store_id = f"store-{hash(access_tok)%999999}"
StoreIdOf(access_tok) == FormatStoreId(PyHash(access_tok) % HashModulus)

\* fetchone() that found no row
NoRow == [store_id |-> NULL, access_token |-> NULL, refresh_token |-> NULL,
          waba_token |-> NULL, waba_phone_id |-> NULL, plan |-> NULL]

\* the rows of a table that satisfy a condition, in id order
Rows(table) == { table[i] : i \in 1..Len(table) }

\* an upsert that rewrites the two tokens of the row in conflict in place, and
\* inserts when there is none
UpsertMerchantTokens(ms, store_id, access_tok, refresh_tok) ==
  IF \E i \in 1..Len(ms) : ms[i].store_id = store_id
    THEN [i \in 1..Len(ms) |->
            IF ms[i].store_id = store_id
              THEN [ms[i] EXCEPT !.access_token = access_tok, !.refresh_token = refresh_tok]
              ELSE ms[i]]
    ELSE Append(ms, [store_id |-> store_id, access_token |-> access_tok,
                     refresh_token |-> refresh_tok,
                     waba_token |-> NULL, waba_phone_id |-> NULL, plan |-> "basic"])

\* INSERT OR REPLACE INTO merchants: store_id is UNIQUE, so the row in conflict
\* is deleted and the new row gets a fresh, larger id; the columns the
\* statement does not name take their defaults (NULL, plan 'basic')
InsertOrReplaceMerchant(ms, store_id, access_tok, refresh_tok) ==
  Append(SelectSeq(ms, LAMBDA r : r.store_id # store_id),
         [store_id |-> store_id, access_token |-> access_tok, refresh_token |-> refresh_tok,
          waba_token |-> NULL, waba_phone_id |-> NULL, plan |-> "basic"])

\* UPDATE merchants SET waba_token=?, waba_phone_id=? WHERE store_id=?
UpdateMerchantWaba(ms, wtok, wpid, store_id) ==
  [i \in 1..Len(ms) |-> IF ms[i].store_id = store_id
                           THEN [ms[i] EXCEPT !.waba_token = wtok, !.waba_phone_id = wpid]
                           ELSE ms[i]]

\* The tables store_settings and templates are kept as one sequence of rows
\* per store_id (the rows of that store in id order): every statement of the
\* program on these tables names the store_id, so the order of the rows of two
\* different stores is never read.
StoreIds == {"store-5", "store-7", "store-9"}
EmptyTable == [s \in StoreIds |-> << >>]

\* INSERT OR IGNORE INTO store_settings: UNIQUE(store_id)
InsertOrIgnoreSettings(ss, store_id, settings_json) ==
  IF ss[store_id] # << >>
    THEN ss
    ELSE [ss EXCEPT ![store_id] = Append(@, [store_id |-> store_id, settings_json |-> settings_json])]

\* a plain INSERT on a table without the UNIQUE(store_id) constraint
InsertSettings(ss, store_id, settings_json) ==
  [ss EXCEPT ![store_id] = Append(@, [store_id |-> store_id, settings_json |-> settings_json])]

\* INSERT OR REPLACE INTO store_settings: UNIQUE(store_id)
InsertOrReplaceSettings(ss, store_id, settings_json) ==
  [ss EXCEPT ![store_id] = << [store_id |-> store_id, settings_json |-> settings_json] >>]

\* SELECT settings_json FROM store_settings WHERE store_id=? ... fetchone():
\* << >> for None, else the one-column row
SelectSettings(ss, store_id) ==
  IF ss[store_id] = << >> THEN << >> ELSE << ss[store_id][1].settings_json >>

\* a plain INSERT on a table without the UNIQUE(store_id, tkey) constraint
InsertTemplate(ts, store_id, tkey, disp, txt) ==
  [ts EXCEPT ![store_id] =
     Append(@, [store_id |-> store_id, tkey |-> tkey, display_name |-> disp, body |-> txt])]

\* INSERT OR IGNORE INTO templates: UNIQUE(store_id, tkey).  In SQLite two
\* NULLs are distinct for a UNIQUE constraint, so a NULL tkey never conflicts.
InsertOrIgnoreTemplate(ts, store_id, tkey, disp, txt) ==
  IF tkey # NULL /\ \E r \in Rows(ts[store_id]) : r.tkey = tkey
    THEN ts
    ELSE [ts EXCEPT ![store_id] =
            Append(@, [store_id |-> store_id, tkey |-> tkey, display_name |-> disp, body |-> txt])]

\* UPDATE templates SET display_name=?, body=? WHERE store_id=? AND tkey=?
\* (tkey = NULL is never true in SQL)
UpdateTemplate(ts, disp, txt, store_id, tkey) ==
  [ts EXCEPT ![store_id] =
     [i \in 1..Len(@) |-> IF tkey # NULL /\ @[i].tkey = tkey
                             THEN [@[i] EXCEPT !.display_name = disp, !.body = txt]
                             ELSE @[i]]]

\* SELECT tkey, display_name, body FROM templates WHERE store_id=? ORDER BY id
SelectTemplates(ts, store_id) ==
  [i \in 1..Len(ts[store_id]) |->
     [tkey |-> ts[store_id][i].tkey, display_name |-> ts[store_id][i].display_name,
      body |-> ts[store_id][i].body]]

\* ------------------------------------------------------------ data functions
\* a seeder that writes the default settings whether or not a row exists
ensure_defaults_settings_replace(ss, store_id) ==
  InsertOrReplaceSettings(ss, store_id, JsonDumps(DEFAULT_SETTINGS))

\* ensure_defaults, on the two tables it writes
ensure_defaults_settings(ss, store_id) ==
  IF SelectSettings(ss, store_id) = << >>
    THEN InsertOrIgnoreSettings(ss, store_id, JsonDumps(DEFAULT_SETTINGS))
    ELSE ss

RECURSIVE SeedTemplates(_, _, _)
SeedTemplates(ts, store_id, i) ==
  IF i > Len(DEFAULT_TEMPLATES) THEN ts
  ELSE SeedTemplates(InsertOrIgnoreTemplate(ts, store_id, DEFAULT_TEMPLATES[i].tkey,
                                            DEFAULT_TEMPLATES[i].display_name,
                                            DEFAULT_TEMPLATES[i].body),
                     store_id, i + 1)

ensure_defaults_templates(ts, store_id) == SeedTemplates(ts, store_id, 1)

\* get_store without the ambiguity check: the newest tenant when no sid is given
get_store_newest(ms, sid) ==
  IF Truthy(sid)
    THEN LET hit == SelectSeq(ms, LAMBDA r : r.store_id = sid)
         IN  IF hit = << >> THEN NoRow ELSE hit[1]
    ELSE IF ms = << >> THEN NoRow ELSE ms[Len(ms)]

\* get_store: the tenant of a request
get_store(ms, sid) ==
  IF Truthy(sid)
    THEN LET hit == SelectSeq(ms, LAMBDA r : r.store_id = sid)
         IN  IF hit = << >> THEN NoRow ELSE hit[1]
    ELSE \* ORDER BY id DESC LIMIT 2
         LET n   == Len(ms)
             row == [i \in 1..(IF n < 2 THEN n ELSE 2) |-> ms[n + 1 - i]]
         IN  IF row = << >> THEN NoRow
             ELSE IF Len(row) = 1 THEN row[1]
             ELSE NoRow

\* ------------------------------------------------------------ JSON inputs
\* a JSON number or a missing field, as body.get gives it
JNull == [t |-> "null"]
JInt(n) == [t |-> "int", v |-> n]
\* int(x or 60): None and 0 are falsy
RateOrDefault(x) == IF x = JNull \/ x.v = 0 THEN DefaultRateLimit ELSE x.v

\* an enabled-map is a function from event kinds to booleans; NoMap stands for
\* a body without the field, EmptyMap for {}
NoMap == [k \in {"<None>"} |-> FALSE]
EmptyMap == [k \in {} |-> TRUE]
\* a fallback that tests for None only: {} is kept
EnabledIfNotNone(m) == IF m = NoMap THEN DefaultEnabled ELSE m
\* body.get("enabled") or DEFAULT_SETTINGS["enabled"]: None and {} are falsy
EnabledOrDefault(m) == IF m = NoMap \/ m = EmptyMap THEN DefaultEnabled ELSE m

\* ----------------------------------------------------------------- transport
\* send_whatsapp_text: what the awaited client.post ends with, and what the
\* function makes of it.  A connect error or a timeout is raised by client.post,
\* outside the try; a body that is no JSON becomes {"text": <bytes>}.
send_whatsapp_text(outcome) ==
  IF outcome.kind # "response"
    THEN [raised |-> TRUE, status |-> 0, data |-> [kind |-> "none", v |-> outcome.kind]]
    ELSE [raised |-> FALSE, status |-> outcome.status,
          data |-> IF outcome.json THEN [kind |-> "json", v |-> outcome.payload]
                   ELSE [kind |-> "bytes_in_dict", v |-> outcome.payload]]

\* the request send_whatsapp_text posts: the phone id in the URL, the token in
\* the Authorization header, the destination and the text in the JSON body
WabaRequest(waba_token, waba_phone_id, to_msisdn, body) ==
  [url_phone_id |-> waba_phone_id, bearer |-> waba_token, to |-> to_msisdn, body |-> body]
NoRequest == WabaRequest(NULL, NULL, << >>, << >>)
\* what the transport did with a request: an HTTP response (any status, a body
\* that is JSON or not), or no response (connect error, timeout)
NoOutcome == [kind |-> "none", status |-> 0, json |-> FALSE, payload |-> NULL]
Exchange(request, outcome) == [request |-> request, outcome |-> outcome]

\* json.dumps(data) raises TypeError on a dict that holds bytes
JsonSerializable(data) == data.kind = "json"

\* ------------------------------------------------------------------ webhook
\* a JSON value of an inbound payload: a string, null, or an object; JAbsent
\* stands for a key the object does not hold
JStr(s) == [t |-> "str", v |-> s]
JNone == [t |-> "null", v |-> ""]
JObject(s) == [t |-> "object", v |-> s]
JAbsent == [t |-> "absent", v |-> ""]
\* Python truthiness of such a value (a missing key reads as None)
JTruthy(x) == x.t = "object" \/ (x.t = "str" /\ x.v # "")
\* payload.get(k) and payload.get(k, default)
Get(payload, k) == IF payload[k] = JAbsent THEN JNone ELSE payload[k]
GetOr(payload, k, default) == IF payload[k] = JAbsent THEN default ELSE payload[k]
\* the event type taken from "event" whenever the key is there
event_type_if_present(payload) ==
  IF payload["event"] # JAbsent THEN payload["event"]
  ELSE GetOr(payload, "type", JStr("unknown"))
\* payload.get("event") or payload.get("type", "unknown")
event_type(payload) ==
  IF JTruthy(Get(payload, "event")) THEN Get(payload, "event")
  ELSE GetOr(payload, "type", JStr("unknown"))
\* payload.get("store_id", "unknown")
store_id_of(payload) == GetOr(payload, "store_id", JStr("unknown"))
\* what sqlite3 binds as a parameter: a str or None, not a dict
Bindable(x) == x.t \in {"str", "null"}
SqlValue(x) == IF x.t = "null" THEN NULL ELSE x.v

\* the body of a request: a text that is no JSON, JSON that is no object, or
\* a JSON object, held as its members
RawText == [kind |-> "text", members |-> [k \in {"event", "type", "store_id", "data"} |-> JAbsent]]
RawArray == [kind |-> "array", members |-> [k \in {"event", "type", "store_id", "data"} |-> JAbsent]]
RawObject(event, type, store_id) ==
  [kind |-> "object",
   members |-> [event |-> event, type |-> type, store_id |-> store_id,
                data |-> JObject("order")]]
\* hmac.new(key, raw, sha256).hexdigest(): different keys or bodies give
\* different digests
HexDigest(key, raw) == [key |-> key, raw |-> raw]
\* the X-Signature header when the request has none: ""
NoSignature == HexDigest(NULL, RawText)
\* the signature check of the handler: skipped when the secret is empty
Verified(secret, raw, sig) == Truthy(secret) => HexDigest(secret, raw) = sig
\* the row INSERT INTO events adds
EventRow(payload) ==
  [store_id |-> SqlValue(store_id_of(payload)),
   event_type |-> SqlValue(event_type(payload)),
   payload |-> JsonDumps(payload)]

\* ----------------------------------------------------------------- renderer
\* texts are sequences of characters
StartsWith(s, i, pat) ==
  i + Len(pat) - 1 <= Len(s) /\ SubSeq(s, i, i + Len(pat) - 1) = pat
\* the places from i on where pat occurs in s, and the first of them
Hits(s, i, pat) == { j \in i..Len(s) : StartsWith(s, j, pat) }
FirstHit(s, i, pat) == CHOOSE j \in Hits(s, i, pat) : \A h \in Hits(s, i, pat) : j <= h
\* String.replace with a string pattern: the first occurrence only
replaceFirst(s, pat, rep) ==
  IF Hits(s, 1, pat) = {} THEN s
  ELSE LET j == FirstHit(s, 1, pat)
       IN  SubSeq(s, 1, j - 1) \o rep \o SubSeq(s, j + Len(pat), Len(s))
\* String.replaceAll with a string pattern: the occurrences are found from
\* left to right and do not overlap; the text put in is not searched again
RECURSIVE ReplaceAllFrom(_, _, _, _)
ReplaceAllFrom(s, i, pat, rep) ==
  IF Hits(s, i, pat) = {} THEN SubSeq(s, i, Len(s))
  ELSE LET j == FirstHit(s, i, pat)
       IN  SubSeq(s, i, j - 1) \o rep \o ReplaceAllFrom(s, j + Len(pat), pat, rep)
replaceAll(s, pat, rep) == ReplaceAllFrom(s, 1, pat, rep)

PLACEHOLDERS ==
  << << "{", "n", "a", "m", "e", "}" >>,
     << "{", "o", "r", "d", "e", "r", "_", "n", "o", "}" >>,
     << "{", "o", "r", "d", "e", "r", "_", "u", "r", "l", "}" >>,
     << "{", "t", "r", "a", "c", "k", "i", "n", "g", "_", "n", "o", "}" >> >>
\* the values updatePreview puts in (the first stands for the Arabic word of
\* six letters); none holds "$", which replaceAll would read as a pattern
SampleValues ==
  << << "ain", "meem", "yeh", "lam", "noon", "alef" >>,
     << "1", "2", "3", "4", "5" >>,
     << "h", "t", "t", "p", "s", ":", "/", "/", "s", "a", "l", "l", "a", ".", "s", "a", "/", "o", "r", "d", "e", "r", "s", "/", "1", "2", "3", "4", "5" >>,
     << "T", "R", "K", "1", "2", "3" >> >>
\* the text updatePreview writes to the preview box for a template body
PreviewText(body) ==
  replaceAll(replaceAll(replaceAll(replaceAll(body,
    PLACEHOLDERS[1], SampleValues[1]), PLACEHOLDERS[2], SampleValues[2]),
    PLACEHOLDERS[3], SampleValues[3]), PLACEHOLDERS[4], SampleValues[4])

\* ------------------------------------------------------------------- state
VARIABLES
  merchants,            \* table merchants, in id order
  store_settings,       \* table store_settings, per store_id in id order
  templates,            \* table templates, per store_id in id order
  logs,                 \* table logs (the delivery log), in id order
  sent,                 \* number of requests put to the messaging transport
  wire,                 \* the last request put to the transport, and how it ended
  GLOBAL_WABA_TOKEN,    \* process-wide credentials, read once at startup
  GLOBAL_WABA_PHONE_ID,
  SALLA_WEBHOOK_SEC,    \* the webhook shared secret, read once at startup
  events,               \* table events (the event log), in id order
  inbound,              \* the last request POST /webhook received
  tpl_body,             \* the page's currentTemplateBody()
  preview,              \* the page's preview box
  pending,              \* the requests suspended at "await request.json()"
  wrote,                \* per store, what the resumed requests wrote last
  resp                  \* the last request handled and what its caller got

vars == << merchants, store_settings, templates, logs, sent, wire,
           GLOBAL_WABA_TOKEN, GLOBAL_WABA_PHONE_ID, SALLA_WEBHOOK_SEC,
           events, inbound, tpl_body, preview,
           pending, wrote, resp >>

db == << merchants, store_settings, templates, logs, sent, wire >>
env == << GLOBAL_WABA_TOKEN, GLOBAL_WABA_PHONE_ID, SALLA_WEBHOOK_SEC >>
\* the dashboard page in the browser
page == << tpl_body, preview >>
\* what no handler of the dashboard's API touches: the event log, the webhook
\* request, the page
\* the requests in flight and the record of their writes
race == << pending, wrote >>
aside == << events, inbound, page, race >>

\* ------------------------------------------------------------------ inputs
AccessTokens == {"tokA", "tokB", "tokC", "tokD"}
TwoStoreTokens == {"tokA", "tokB"}
RefreshTokens == {"r1"}
Sids == {NULL, "store-5", "store-7", "store-9", "store-1"}
TwoStoreSids == {NULL, "store-5", "store-7", "store-9"}
EnabledInputs == {NoMap, EmptyMap, [DefaultEnabled EXCEPT !["order_paid"] = FALSE]}
RateInputs == {JNull, JInt(0), JInt(5)}
SettingsInputs == [enabled : EnabledInputs, rate_limit_mps : RateInputs]
WabaInputs == { [waba_token |-> "T", waba_phone_id |-> NULL],
                [waba_token |-> "T", waba_phone_id |-> "P"] }
TemplateEntries ==
  { [tkey |-> "order_paid", display_name |-> NULL, body |-> "B1"],
    [tkey |-> "order_paid", display_name |-> "D2", body |-> NULL],
    [tkey |-> "promo",      display_name |-> NULL, body |-> "B1"],
    [tkey |-> NULL,         display_name |-> NULL, body |-> "B1"] }
\* the lists of at most MaxEntries different entries
ListsOver(entries, n) ==
  UNION { { l \in [1..k -> entries] : \A i, j \in 1..k : l[i] = l[j] => i = j } : k \in 0..n }
TemplateLists == ListsOver(TemplateEntries, MaxEntries)
MsisdnInputs == { Absent, << " " >>, << "9" >>, << " ", "9", " " >> }
BodyInputs == { Absent, << "h", " " >> }
SendInputs == [to_msisdn : MsisdnInputs, body : BodyInputs]
Outcomes ==
  { [kind |-> "response", status |-> 200, json |-> TRUE, payload |-> "ok"],
    [kind |-> "response", status |-> 401, json |-> TRUE, payload |-> "denied"],
    [kind |-> "response", status |-> 502, json |-> FALSE, payload |-> "html"],
    [kind |-> "connect_error", status |-> 0, json |-> FALSE, payload |-> NULL],
    [kind |-> "timeout", status |-> 0, json |-> FALSE, payload |-> NULL] }

\* bodies of POST /webhook: JSON objects with and without the fields the
\* handler reads, one with a nested object where a string is expected, and
\* bodies that are no JSON object
ObjectBodies ==
  { RawObject(JAbsent, JAbsent, JAbsent),
    RawObject(JAbsent, JStr("order.updated"), JAbsent),
    RawObject(JStr(""), JStr("order.updated"), JAbsent),
    RawObject(JStr("order.created"), JStr("order.updated"), JAbsent),
    RawObject(JStr("order.created"), JAbsent, JStr("store-5")) }
RawBodies ==
  ObjectBodies \cup { RawObject(JStr("order.created"), JAbsent, JObject("merchant")),
                      RawText, RawArray }
\* X-Signature headers besides the right one: none, and a digest under
\* another key
Signatures(raw) == {NoSignature, HexDigest("guess", raw)}

\* template bodies: at most MaxPieces pieces put together, a piece being a
\* recognized placeholder, another token in braces, or a part of a placeholder
Pieces ==
  { PLACEHOLDERS[i] : i \in 1..4 } \cup
  { << "{", "f", "o", "o", "}" >>, << "{" >>, << "n", "a", "m", "e", "}" >>, << "x" >> }
RECURSIVE Concat(_)
Concat(ps) == IF ps = << >> THEN << >> ELSE Head(ps) \o Concat(Tail(ps))
Bodies == { Concat(ps) : ps \in UNION { [1..k -> Pieces] : k \in 0..MaxPieces } }

\* two requests that may be in flight together
Requests == {"r1", "r2"}
\* a request that is not in flight, and one suspended in handler op after
\* get_store gave it the row of store_id
Idle == [op |-> "idle", store_id |-> NULL]
Suspended(op, store_id) == [op |-> op, store_id |-> store_id]
\* the keys the Save templates requests of the model name (None among them)
EntryKeys == { e.tkey : e \in TemplateEntries }
\* no write yet: no settings object, no body for any key
NothingWritten == [settings |-> << >>, bodies |-> [k \in EntryKeys |-> << >>]]
\* Save settings bodies that differ in the enabled-map and in the rate
RaceSettings ==
  { [enabled |-> [DefaultEnabled EXCEPT !["order_paid"] = FALSE], rate_limit_mps |-> JInt(5)],
    [enabled |-> [DefaultEnabled EXCEPT !["order_shipped"] = FALSE], rate_limit_mps |-> JNull] }
\* Save templates lists of one entry
RaceLists == { l \in TemplateLists : Len(l) = 1 }

\* what a caller got: the handler, the HTTP status code, the body
Reply(op, code, body) == [op |-> op, code |-> code, body |-> body]

\* the state after startup, for the given choices of the environment
InitWith(secrets, bodies) ==
  /\ merchants = << >>
  /\ store_settings = EmptyTable
  /\ templates = EmptyTable
  /\ logs = << >>
  /\ sent = 0
  /\ wire = Exchange(NoRequest, NoOutcome)
  /\ \E g \in { << "", "" >>, << "G", "GP" >> } :
       /\ GLOBAL_WABA_TOKEN = g[1]
       /\ GLOBAL_WABA_PHONE_ID = g[2]
  /\ SALLA_WEBHOOK_SEC \in secrets
  /\ events = << >>
  /\ inbound = [raw |-> RawText, sig |-> NoSignature]
  /\ tpl_body \in bodies
  /\ preview = << >>
  /\ pending = [r \in Requests |-> Idle]
  /\ wrote = [s \in StoreIds |-> NothingWritten]
  /\ resp = Reply("start", 0, NULL)

\* the secret left at the default of os.getenv, the page not yet loaded
Init == InitWith({"change-me"}, {<< >>})

\* ---------------------------------------------------------------- handlers
\* GET /callback.  The await of the token exchange comes before the first
\* write; from the INSERT OR REPLACE to the redirect the handler does not yield.
callback(code, tokens) ==
  \/ /\ ~Truthy(code)
     /\ resp' = Reply("callback", 400, "Missing code")
     /\ UNCHANGED << db, env, aside >>
  \/ /\ Truthy(code)
     \* http_post raises (raise_for_status, network error)
     /\ resp' = Reply("callback", 500, NULL)
     /\ UNCHANGED << db, env, aside >>
  \/ /\ Truthy(code)
     /\ \E access_tok \in tokens, refresh_tok \in RefreshTokens :
          LET store_id == StoreIdOf(access_tok)
          IN  /\ merchants' = InsertOrReplaceMerchant(merchants, store_id, access_tok, refresh_tok)
              /\ store_settings' = ensure_defaults_settings(store_settings, store_id)
              /\ templates' = ensure_defaults_templates(templates, store_id)
              /\ resp' = Reply("callback", 307, store_id)
     /\ UNCHANGED << logs, sent, wire, env, aside >>

\* GET /dashboard
dashboard(sid) ==
  LET store == get_store(merchants, sid)
  IN  \/ /\ store = NoRow
         /\ resp' = Reply("dashboard", 200, "select-store")
         /\ UNCHANGED << db, env, aside >>
      \/ /\ store # NoRow
         /\ store_settings' = ensure_defaults_settings(store_settings, store.store_id)
         /\ templates' = ensure_defaults_templates(templates, store.store_id)
         /\ resp' = Reply("dashboard", 200, "dashboard")
         /\ UNCHANGED << merchants, logs, sent, wire, env, aside >>

\* GET /api/store
api_store(sid) ==
  LET store == get_store(merchants, sid)
  IN  /\ resp' = IF store = NoRow THEN Reply("api_store", 404, NULL)
                 ELSE Reply("api_store", 200, store)
      /\ UNCHANGED << db, env, aside >>

\* the settings object GET /api/settings answers with, for a resolved store
ReadSettings(ss, store_id) ==
  LET row == SelectSettings(ss, store_id)
  IN  IF row # << >> THEN JsonLoads(row[1]) ELSE DEFAULT_SETTINGS

\* what GET /api/settings answers
GetSettingsReply(ms, ss, sid) ==
  LET store == get_store(ms, sid)
  IN  IF store = NoRow THEN Reply("api_get_settings", 404, NULL)
      ELSE Reply("api_get_settings", 200, ReadSettings(ss, store.store_id))

\* GET /api/settings
api_get_settings(sid) ==
  /\ resp' = GetSettingsReply(merchants, store_settings, sid)
  /\ UNCHANGED << db, env, aside >>

\* the settings object POST /api/settings builds from the request body
BuildSettings(body) ==
  [enabled |-> EnabledOrDefault(body.enabled),
   rate_limit_mps |-> RateOrDefault(body.rate_limit_mps)]

\* the table after the INSERT OR REPLACE of POST /api/settings
SettingsAfterSave(ss, store_id, body) ==
  InsertOrReplaceSettings(ss, store_id, JsonDumps(BuildSettings(body)))

\* POST /api/settings; bodies: the JSON bodies the request may carry
api_save_settings(sid, bodies) ==
  \E store \in {get_store(merchants, sid)} :
      \/ /\ store = NoRow
         /\ resp' = Reply("api_save_settings", 404, NULL)
         /\ UNCHANGED << db, env, aside >>
      \/ /\ store # NoRow
         /\ \E body \in bodies :
              store_settings' = SettingsAfterSave(store_settings, store.store_id, body)
         /\ resp' = Reply("api_save_settings", 200, "ok")
         /\ UNCHANGED << merchants, templates, logs, sent, wire, env, aside >>

\* the templates table after GET /api/templates for a resolved store
\* (ensure_defaults runs when the store has no template row)
TemplatesAfterGet(ts, store_id) ==
  IF SelectTemplates(ts, store_id) = << >> THEN ensure_defaults_templates(ts, store_id) ELSE ts

\* the store_settings table after GET /api/templates for a resolved store
SettingsAfterGet(ss, ts, store_id) ==
  IF SelectTemplates(ts, store_id) = << >> THEN ensure_defaults_settings(ss, store_id) ELSE ss

\* what GET /api/templates answers
GetTemplatesReply(ms, ts, sid) ==
  LET store == get_store(ms, sid)
  IN  IF store = NoRow THEN Reply("api_get_templates", 404, NULL)
      ELSE Reply("api_get_templates", 200,
                 SelectTemplates(TemplatesAfterGet(ts, store.store_id), store.store_id))

\* GET /api/templates
api_get_templates(sid) ==
  \E store \in {get_store(merchants, sid)} :
      \/ /\ store = NoRow
         /\ resp' = GetTemplatesReply(merchants, templates, sid)
         /\ UNCHANGED << db, env, aside >>
      \/ /\ store # NoRow
         /\ templates' = TemplatesAfterGet(templates, store.store_id)
         /\ store_settings' = SettingsAfterGet(store_settings, templates, store.store_id)
         /\ resp' = GetTemplatesReply(merchants, templates, sid)
         /\ UNCHANGED << merchants, logs, sent, wire, env, aside >>

\* a loop turn with the INSERT OR IGNORE alone, without the UPDATE
SaveOneTemplateInsertOnly(ts, store_id, t) ==
  InsertOrIgnoreTemplate(ts, store_id, t.tkey, Or(t.display_name, t.tkey), Or(t.body, ""))

\* one turn of the loop of POST /api/templates
SaveOneTemplate(ts, store_id, t) ==
  LET tkey == t.tkey
      disp == Or(t.display_name, tkey)
      txt  == Or(t.body, "")
  IN  UpdateTemplate(InsertOrIgnoreTemplate(ts, store_id, tkey, disp, txt),
                     disp, txt, store_id, tkey)

RECURSIVE SaveTemplates(_, _, _, _)
SaveTemplates(ts, store_id, tpls, i) ==
  IF i > Len(tpls) THEN ts
  ELSE SaveTemplates(SaveOneTemplate(ts, store_id, tpls[i]), store_id, tpls, i + 1)

\* the number of rows of the table beside the seeded ones
RECURSIVE SumLen(_, _)
SumLen(ts, S) ==
  IF S = {} THEN 0
  ELSE LET s == CHOOSE x \in S : TRUE
       IN  (IF Len(ts[s]) > Len(DEFAULT_TEMPLATES) THEN Len(ts[s]) - Len(DEFAULT_TEMPLATES) ELSE 0)
           + SumLen(ts, S \ {s})
ExtraRows(ts) == SumLen(ts, StoreIds)

\* POST /api/templates; bodies: the "templates" lists the request may carry
api_save_templates(sid, bodies) ==
  \E store \in {get_store(merchants, sid)} :
      \/ /\ store = NoRow
         /\ resp' = Reply("api_save_templates", 404, NULL)
         /\ UNCHANGED << db, env, aside >>
      \/ /\ store # NoRow
         /\ \E tpls \in bodies :
              /\ templates' = SaveTemplates(templates, store.store_id, tpls, 1)
              /\ ExtraRows(templates') <= MaxExtraRows
         /\ resp' = Reply("api_save_templates", 200, "ok")
         /\ UNCHANGED << merchants, store_settings, logs, sent, wire, env, aside >>

\* POST /api/waba; bodies: the JSON bodies the request may carry
api_save_waba(sid, bodies) ==
  \E store \in {get_store(merchants, sid)} :
      \/ /\ store = NoRow
         /\ resp' = Reply("api_save_waba", 404, NULL)
         /\ UNCHANGED << db, env, aside >>
      \/ /\ store # NoRow
         /\ \E body \in bodies :
              merchants' = UpdateMerchantWaba(merchants, Or(body.waba_token, ""),
                                              Or(body.waba_phone_id, ""), store.store_id)
         /\ resp' = Reply("api_save_waba", 200, "ok")
         /\ UNCHANGED << store_settings, templates, logs, sent, wire, env, aside >>

\* the credentials POST /api/test-send sends with
EffectiveToken(store) == Or(store.waba_token, GLOBAL_WABA_TOKEN)
EffectivePhoneId(store) == Or(store.waba_phone_id, GLOBAL_WABA_PHONE_ID)

\* the row POST /api/test-send writes to the delivery log
LogRow(store_id, to_msisdn, res) ==
  [store_id |-> store_id, to_msisdn |-> to_msisdn, template |-> ManualTest,
   status |-> PyStr(res.status), error |-> JsonDumps(res.data)]

\* POST /api/test-send; bodies: the JSON bodies the request may carry.  The
\* handler awaits the transport between the checks and the INSERT; it uses only
\* values it read before the await.
api_test_send(sid, bodies) ==
  \E store \in {get_store(merchants, sid)} :
      \/ /\ store = NoRow
         /\ resp' = Reply("api_test_send", 404, NULL)
         /\ UNCHANGED << db, env, aside >>
      \/ /\ store # NoRow
         /\ \E body \in bodies :
              LET to_msisdn == Strip(OrEmpty(body.to_msisdn))
                  msg_body  == Strip(OrEmpty(body.body))
                  wtk       == EffectiveToken(store)
                  wpid      == EffectivePhoneId(store)
              IN  \/ /\ to_msisdn = << >> \/ msg_body = << >>
                     /\ resp' = Reply("api_test_send", 400, "Missing to_msisdn/body")
                     /\ UNCHANGED << db, env, aside >>
                  \/ /\ to_msisdn # << >> /\ msg_body # << >>
                     /\ ~Truthy(wtk) \/ ~Truthy(wpid)
                     /\ resp' = Reply("api_test_send", 400, "WABA not configured for this store")
                     /\ UNCHANGED << db, env, aside >>
                  \/ /\ to_msisdn # << >> /\ msg_body # << >>
                     /\ Truthy(wtk) /\ Truthy(wpid)
                     /\ sent < MaxSends
                     /\ sent' = sent + 1
                     /\ \E outcome \in Outcomes :
                          LET res == send_whatsapp_text(outcome)
                          IN  /\ wire' = Exchange(WabaRequest(wtk, wpid, to_msisdn, msg_body), outcome)
                              /\ IF res.raised \/ ~JsonSerializable(res.data)
                                   THEN \* client.post raised, or json.dumps raised on the bytes
                                        /\ resp' = Reply("api_test_send", 500, NULL)
                                        /\ UNCHANGED logs
                                   ELSE /\ logs' = Append(logs, LogRow(store.store_id, to_msisdn, res))
                                        /\ resp' = Reply("api_test_send", 200,
                                                         [status |-> res.status, data |-> res.data])
                     /\ UNCHANGED << merchants, store_settings, templates, env, aside >>

\* POST /webhook.  The body is read before the signature check; a body that
\* is no JSON makes request.json() raise, a JSON array has no .get, and a dict
\* is no parameter sqlite3 binds: each ends the handler before the commit.
webhook(raws, sigs) ==
  \E raw \in raws : \E sig \in sigs \cup {HexDigest("change-me", raw)} :
    /\ inbound' = [raw |-> raw, sig |-> sig]
    /\ IF ~Verified(SALLA_WEBHOOK_SEC, raw, sig)
         THEN /\ resp' = Reply("webhook", 401, NULL)
              /\ UNCHANGED events
         ELSE IF raw.kind # "object"
           THEN /\ resp' = Reply("webhook", 500, NULL)
                /\ UNCHANGED events
           ELSE \E payload \in {raw.members} :
                  IF ~Bindable(store_id_of(payload)) \/ ~Bindable(event_type(payload))
                    THEN /\ resp' = Reply("webhook", 500, NULL)
                         /\ UNCHANGED events
                    ELSE /\ Len(events) < MaxEvents
                         /\ events' = Append(events, EventRow(payload))
                         /\ resp' = Reply("webhook", 200, NULL)
    /\ UNCHANGED << db, env, page, race >>

\* The handlers that read a JSON body suspend once, at "await request.json()",
\* after get_store and before the first write; another request may run there.
\* From the resumption to the return the handler does not yield.

\* POST /api/settings up to the await
begin_save_settings(r, sid) ==
  /\ pending[r] = Idle
  /\ \E store \in {get_store(merchants, sid)} :
       IF store = NoRow
         THEN /\ resp' = Reply("api_save_settings", 404, NULL)
              /\ UNCHANGED pending
         ELSE /\ pending' = [pending EXCEPT ![r] = Suspended("api_save_settings", store.store_id)]
              /\ UNCHANGED resp
  /\ UNCHANGED << db, env, events, inbound, page, wrote >>

\* POST /api/settings from the await on, with the store row read before it
resume_save_settings(r, bodies) ==
  /\ pending[r].op = "api_save_settings"
  /\ \E body \in bodies :
       /\ store_settings' = SettingsAfterSave(store_settings, pending[r].store_id, body)
       /\ wrote' = [wrote EXCEPT ![pending[r].store_id].settings = << body >>]
  /\ pending' = [pending EXCEPT ![r] = Idle]
  /\ resp' = Reply("api_save_settings", 200, "ok")
  /\ UNCHANGED << merchants, templates, logs, sent, wire, env, events, inbound, page >>

\* POST /api/templates up to the await
begin_save_templates(r, sid) ==
  /\ pending[r] = Idle
  /\ \E store \in {get_store(merchants, sid)} :
       IF store = NoRow
         THEN /\ resp' = Reply("api_save_templates", 404, NULL)
              /\ UNCHANGED pending
         ELSE /\ pending' = [pending EXCEPT ![r] = Suspended("api_save_templates", store.store_id)]
              /\ UNCHANGED resp
  /\ UNCHANGED << db, env, events, inbound, page, wrote >>

\* the last body a list holds for each key it names
LastBodies(old, tpls) ==
  [k \in EntryKeys |->
     IF \E i \in 1..Len(tpls) : tpls[i].tkey = k
       THEN LET i == CHOOSE j \in 1..Len(tpls) :
                       /\ tpls[j].tkey = k
                       /\ \A h \in (j + 1)..Len(tpls) : tpls[h].tkey # k
            IN  << Or(tpls[i].body, "") >>
       ELSE old[k]]

\* POST /api/templates from the await on: the whole loop and the commit
resume_save_templates(r, bodies) ==
  /\ pending[r].op = "api_save_templates"
  /\ \E tpls \in bodies :
       /\ templates' = SaveTemplates(templates, pending[r].store_id, tpls, 1)
       /\ ExtraRows(templates') <= MaxExtraRows
       /\ wrote' = [wrote EXCEPT ![pending[r].store_id].bodies = LastBodies(@, tpls)]
  /\ pending' = [pending EXCEPT ![r] = Idle]
  /\ resp' = Reply("api_save_templates", 200, "ok")
  /\ UNCHANGED << merchants, store_settings, logs, sent, wire, env, events, inbound, page >>

\* updatePreview() of the dashboard page: the body of the chosen template,
\* rendered into the preview box
updatePreview ==
  /\ preview' = PreviewText(tpl_body)
  /\ UNCHANGED << db, env, events, inbound, tpl_body, race, resp >>

\* ------------------------------------------------------------ specifications
\* The whole machine: every handler, every input.
Next ==
  \/ \E code \in {NULL, "c"} : callback(code, AccessTokens)
  \/ \E sid \in Sids : dashboard(sid)
  \/ \E sid \in Sids : api_store(sid)
  \/ \E sid \in Sids : api_get_settings(sid)
  \/ \E sid \in Sids : api_save_settings(sid, SettingsInputs)
  \/ \E sid \in Sids : api_get_templates(sid)
  \/ \E sid \in Sids : api_save_templates(sid, TemplateLists)
  \/ \E sid \in Sids : api_save_waba(sid, WabaInputs)
  \/ \E sid \in Sids : api_test_send(sid, SendInputs)

Spec == Init /\ [][Next]_vars

\* The parts of the machine the properties below are checked on.  Each keeps
\* the handlers that read or write the tables its properties speak of; the
\* handlers left out leave those tables UNCHANGED.

\* onboarding and the choice of the tenant
Onboard(tokens) == \E code \in {NULL, "c"} : callback(code, tokens)

NextTenancy ==
  \/ Onboard(AccessTokens)
  \/ \E sid \in Sids : api_store(sid)

SpecTenancy == Init /\ [][NextTenancy]_vars

\* seeding, settings and templates together
SeedLists == { l \in TemplateLists : Len(l) <= 1 /\ \A i \in 1..Len(l) : l[i].tkey # NULL /\ l[i].body # NULL }

NextSeed ==
  \/ Onboard(TwoStoreTokens)
  \/ \E sid \in TwoStoreSids : dashboard(sid)
  \/ \E sid \in TwoStoreSids : api_get_settings(sid)
  \/ \E sid \in TwoStoreSids : api_save_settings(sid, SettingsInputs)
  \/ \E sid \in TwoStoreSids : api_get_templates(sid)
  \/ \E sid \in TwoStoreSids : api_save_templates(sid, SeedLists)

SpecSeed == Init /\ [][NextSeed]_vars

\* the template repository
NextTemplates ==
  \/ Onboard(TwoStoreTokens)
  \/ \E sid \in TwoStoreSids : api_get_templates(sid)
  \/ \E sid \in TwoStoreSids : api_save_templates(sid, TemplateLists)

SpecTemplates == Init /\ [][NextTemplates]_vars

\* the ad-hoc send
NextSend ==
  \/ Onboard(TwoStoreTokens)
  \/ \E sid \in TwoStoreSids : api_save_waba(sid, WabaInputs)
  \/ \E sid \in TwoStoreSids : api_test_send(sid, SendInputs)

SpecSend == Init /\ [][NextSend]_vars

\* the inbound event recorder, next to onboarding and the settings writes
NextWebhook ==
  \/ Onboard({"tokA"})
  \/ \E raw \in RawBodies : webhook({raw}, Signatures(raw))

SpecWebhook == InitWith({"", "change-me"}, {<< >>}) /\ [][NextWebhook]_vars

\* the preview of the dashboard page, for every template body
NextPreview == updatePreview

SpecPreview == InitWith({"change-me"}, Bodies) /\ [][NextPreview]_vars

\* two requests in flight on one tenant, which may be onboarded again
\* while they are suspended
NextRace ==
  \/ Onboard({"tokA"})
  \/ \E r \in Requests : \E sid \in {NULL, "store-5"} : begin_save_settings(r, sid)
  \/ \E r \in Requests : resume_save_settings(r, RaceSettings)
  \/ \E r \in Requests : \E sid \in {NULL, "store-5"} : begin_save_templates(r, sid)
  \/ \E r \in Requests : resume_save_templates(r, RaceLists)

SpecRace == Init /\ [][NextRace]_vars

\* onboarding again: store-5 under two access tokens and store-7 beside it,
\* store-5 with credentials, settings and templates of its own
ReonboardTokens == {"tokA", "tokB", "tokC"}
ReonboardSettings == { b \in SettingsInputs : b.enabled \notin {NoMap, EmptyMap} /\ b.rate_limit_mps = JInt(5) }
ReonboardLists == { l \in SeedLists : Len(l) = 1 /\ l[1].tkey = "order_paid" }
ReonboardSends == { b \in SendInputs : b.to_msisdn = << "9" >> /\ b.body # Absent }

NextReonboard ==
  \/ Onboard(ReonboardTokens)
  \/ \E sid \in {"store-5"} : api_save_waba(sid, WabaInputs)
  \/ \E sid \in {"store-5"} : api_save_settings(sid, ReonboardSettings)
  \/ \E sid \in {"store-5"} : api_save_templates(sid, ReonboardLists)
  \/ \E sid \in {"store-5"} : api_test_send(sid, ReonboardSends)

SpecReonboard == Init /\ [][NextReonboard]_vars

\* ------------------------------------------------------------- properties
\* the tenants whose store_id is sid
Matching(sid) == { i \in 1..Len(merchants) : merchants[i].store_id = sid }

\* C1: get_store with an explicit identifier returns the tenant whose store_id
\* is that identifier, and not-found when no tenant has it; with no identifier
\* (none, or an empty one) it returns not-found when there is no tenant, the
\* tenant when there is exactly one, and not-found when there are two or more.
\* GET /api/store answers 404 exactly when get_store finds nothing, and
\* otherwise with a row of the table.
C1_TenantResolution ==
  /\ \A sid \in (Sids \cup {""}) :
       LET got == get_store(merchants, sid)
       IN  IF Truthy(sid)
             THEN /\ Matching(sid) = {} => got = NoRow
                  /\ Matching(sid) # {} =>
                       /\ Cardinality(Matching(sid)) = 1
                       /\ \A i \in Matching(sid) : got = merchants[i]
             ELSE /\ Len(merchants) = 0 => got = NoRow
                  /\ Len(merchants) = 1 => got = merchants[1]
                  /\ Len(merchants) >= 2 => got = NoRow
  /\ resp.op = "api_store" =>
       \/ resp.code = 404
       \/ resp.code = 200 /\ resp.body \in Rows(merchants)

\* three tenants, and GET /api/store has just answered with the oldest of them
C1_Witness ==
  /\ Len(merchants) = 3
  /\ resp.op = "api_store" /\ resp.code = 200
  /\ resp.body = merchants[1]

\* the tenants' store ids
Tenants == { merchants[i].store_id : i \in 1..Len(merchants) }
\* a settings row that no seeding writes
Customised(s) ==
  /\ store_settings[s] # << >>
  /\ JsonLoads(store_settings[s][1].settings_json) # DEFAULT_SETTINGS
\* the store has a template row with this key and this body
HasTemplate(s, tkey, body) ==
  \E r \in Rows(templates[s]) : r.tkey = tkey /\ r.body = body

\* C2: ensure_defaults is idempotent.  From every reachable state of the two
\* tables and for every store_id (a store not onboarded yet has no rows; a
\* tenant has its seeded and customised rows), running the seeder twice leaves
\* the settings rows and the template rows as running it once does.
C2_EnsureDefaultsIdempotent ==
  \A s \in StoreIds :
    LET ss1 == ensure_defaults_settings(store_settings, s)
        ts1 == ensure_defaults_templates(templates, s)
    IN  /\ ensure_defaults_settings(ss1, s) = ss1
        /\ ensure_defaults_templates(ts1, s) = ts1
        /\ Len(ss1[s]) = 1
        /\ Len(ts1[s]) >= Len(DEFAULT_TEMPLATES)

\* the dashboard has just run the seeder on a tenant with customised settings, a
\* customised template and a template of its own, while another store has no row
C2_Witness ==
  /\ resp.op = "dashboard" /\ resp.body = "dashboard"
  /\ Tenants = {"store-5"}
  /\ Customised("store-5")
  /\ HasTemplate("store-5", "order_paid", "B1")
  /\ HasTemplate("store-5", "promo", "B1")
  /\ templates["store-7"] = << >>

\* every row of the table before the step is the same row after it
SettingsKept == \A s \in StoreIds : store_settings[s] # << >> => store_settings'[s] = store_settings[s]
TemplatesKept ==
  \A s \in StoreIds : \A i \in 1..Len(templates[s]) :
     /\ i <= Len(templates'[s])
     /\ templates'[s][i] = templates[s][i]

\* C3: the seeder never overwrites.  A step of a handler that runs
\* ensure_defaults (the onboarding callback, the dashboard, Get templates) and
\* of any handler other than Save settings leaves every existing settings row
\* as it is; a step of any handler other than Save templates leaves every
\* existing template row (key, display name, body) as it is.
C3_SeederNeverOverwrites ==
  [][ /\ resp'.op # "api_save_settings" => SettingsKept
      /\ resp'.op # "api_save_templates" => TemplatesKept ]_vars

\* the onboarding callback has just run again for a tenant whose settings and
\* order_paid template were customised, and they are still customised
C3_Witness ==
  /\ resp.op = "callback" /\ resp.code = 307 /\ resp.body = "store-5"
  /\ Customised("store-5")
  /\ HasTemplate("store-5", "order_paid", "B1")

\* C5: Save settings with an absent or an empty enabled-map stores the default
\* map.  From every reachable state (whatever flags the tenant has stored), for
\* every request identifier that resolves to a tenant and every such body, Get
\* settings with the same identifier after the save answers with an enabled-map
\* of exactly the seven event kinds, all true.
DefaultingInputs == { b \in SettingsInputs : b.enabled \in {NoMap, EmptyMap} }
C5_SaveSettingsDefaultsEnabled ==
  \A sid \in TwoStoreSids :
    LET store == get_store(merchants, sid)
    IN  store # NoRow =>
          \A body \in DefaultingInputs :
            LET got == GetSettingsReply(merchants,
                                        SettingsAfterSave(store_settings, store.store_id, body), sid)
            IN  /\ got.code = 200
                /\ DOMAIN got.body.enabled = EventKinds
                /\ \A k \in EventKinds : got.body.enabled[k] = TRUE

\* a save with an empty or absent enabled-map and the rate 5 has just been
\* stored for a tenant (only such a save gives the default map with that rate)
C5_Witness ==
  /\ resp.op = "api_save_settings" /\ resp.code = 200
  /\ \E s \in Tenants :
       /\ store_settings[s] # << >>
       /\ JsonLoads(store_settings[s][1].settings_json) =
            [enabled |-> DefaultEnabled, rate_limit_mps |-> 5]

\* C9: every tenant has exactly one settings row, and no store_id has two.
C9_OneSettingsRowPerTenant ==
  /\ \A s \in Tenants : Len(store_settings[s]) = 1
  /\ \A s \in StoreIds : Len(store_settings[s]) <= 1

\* two tenants, one of them with settings that a save has replaced
C9_Witness ==
  /\ Cardinality(Tenants) = 2
  /\ resp.op = "api_save_settings" /\ resp.code = 200
  /\ \E s \in Tenants : Customised(s)

\* the keys a "templates" list names
KeysOf(tpls) == { tpls[i].tkey : i \in 1..Len(tpls) } \ {NULL}
\* the rows Get templates answers with for a key
RowsFor(reply, tkey) == { i \in 1..Len(reply.body) : reply.body[i].tkey = tkey }

\* Save templates leaves alone the rows of the store whose key the list does
\* not name, and every row of every other store
SaveFrame(s, tpls, after) ==
  /\ \A p \in 1..Len(templates[s]) :
       templates[s][p].tkey \notin KeysOf(tpls) =>
          /\ p <= Len(after[s])
          /\ after[s][p] = templates[s][p]
  /\ \A o \in StoreIds \ {s} : after[o] = templates[o]

\* C4 as claimed: after Save templates, Get templates gives for EVERY submitted
\* entry with a key the body of that entry, and the other rows are unchanged.
C4_EveryEntryReadBack ==
  \A sid \in TwoStoreSids :
    \A store \in {get_store(merchants, sid)} :
        store # NoRow =>
          \A tpls \in TemplateLists :
            \A saved \in {SaveTemplates(templates, store.store_id, tpls, 1)} :
            \A reply \in {GetTemplatesReply(merchants, saved, sid)} :
            \A after \in {TemplatesAfterGet(saved, store.store_id)} :
                /\ reply.code = 200
                /\ \A i \in 1..Len(tpls) :
                     tpls[i].tkey # NULL =>
                        /\ RowsFor(reply, tpls[i].tkey) # {}
                        /\ \A p \in RowsFor(reply, tpls[i].tkey) :
                              reply.body[p].body = Or(tpls[i].body, "")
                /\ SaveFrame(store.store_id, tpls, after)

\* C4, amended: after Save templates, Get templates gives for every key the
\* list names one row, with the body of the LAST entry of the list that has
\* this key (the empty text when that entry has no body); the rows of the
\* store under other keys and the rows of the other stores are unchanged.
C4_LastEntryReadBack ==
  \A sid \in TwoStoreSids :
    \A store \in {get_store(merchants, sid)} :
        store # NoRow =>
          \A tpls \in TemplateLists :
            \A saved \in {SaveTemplates(templates, store.store_id, tpls, 1)} :
            \A reply \in {GetTemplatesReply(merchants, saved, sid)} :
            \A after \in {TemplatesAfterGet(saved, store.store_id)} :
                /\ reply.code = 200
                /\ \A i \in 1..Len(tpls) :
                     (/\ tpls[i].tkey # NULL
                      /\ \A j \in (i + 1)..Len(tpls) : tpls[j].tkey # tpls[i].tkey) =>
                        /\ Cardinality(RowsFor(reply, tpls[i].tkey)) = 1
                        /\ \A p \in RowsFor(reply, tpls[i].tkey) :
                              reply.body[p].body = Or(tpls[i].body, "")
                /\ SaveFrame(store.store_id, tpls, after)

\* a save has just rewritten order_paid (display name D2, no body) and created
\* the row promo for one of two tenants; the other tenant's rows are the seeded
C4_Witness ==
  /\ resp.op = "api_save_templates" /\ resp.code = 200
  /\ Tenants = {"store-5", "store-7"}
  /\ \E r \in Rows(templates["store-5"]) :
        r.tkey = "order_paid" /\ r.display_name = "D2" /\ r.body = ""
  /\ HasTemplate("store-5", "promo", "B1")
  /\ templates["store-7"] = ensure_defaults_templates(EmptyTable, "store-7")["store-7"]

\* C10 as claimed: no two template rows of a store have the same key, and every
\* template row's key is one of the seven event kinds.
C10_KeysUniqueAndKnown ==
  \A s \in StoreIds :
    /\ \A i, j \in 1..Len(templates[s]) :
          templates[s][i].tkey = templates[s][j].tkey => i = j
    /\ \A i \in 1..Len(templates[s]) : templates[s][i].tkey \in EventKinds

\* a text with a character that is no white space
NonBlank(t) == \E k \in 1..Len(t) : ~IsSpace(t[k])
\* a step of POST /api/test-send
TestSendStep == resp'.op = "api_test_send"
\* the step put a request to the transport
Issued == sent' # sent \/ wire' # wire

\* C6: an ad-hoc send that fails before sending leaves no trace.  A step of
\* test-send that answers 404 (no tenant) or 400 (empty destination or body, or
\* no credentials) puts no request to the transport and leaves the delivery log
\* as it is; and a request is put to the transport only for a tenant whose
\* effective token and phone id (the store's value if set, else the process-wide
\* one) are both non-empty, with that token and phone id, and with a destination
\* and a body that are not blank.
C6_FailedBeforeSendNoTrace ==
  [][ TestSendStep =>
        /\ resp'.code \in {404, 400} => (~Issued /\ logs' = logs)
        /\ (Issued \/ logs' # logs) =>
              /\ \E m \in Rows(merchants) :
                    /\ Truthy(EffectiveToken(m)) /\ Truthy(EffectivePhoneId(m))
                    /\ wire'.request.bearer = EffectiveToken(m)
                    /\ wire'.request.url_phone_id = EffectivePhoneId(m)
              /\ NonBlank(wire'.request.to) /\ NonBlank(wire'.request.body) ]_vars

\* test-send has just answered CredentialsMissing for a tenant that has a
\* token of its own and no phone id, with no process-wide credentials, and
\* nothing was sent or logged
C6_Witness ==
  /\ resp.op = "api_test_send" /\ resp.code = 400
  /\ resp.body = "WABA not configured for this store"
  /\ GLOBAL_WABA_TOKEN = "" /\ GLOBAL_WABA_PHONE_ID = ""
  /\ \E m \in Rows(merchants) : m.waba_token = "T" /\ m.waba_phone_id = ""
  /\ sent = 0 /\ logs = << >>

\* C7 as claimed: whenever an ad-hoc send reaches the transport and the transport
\* answers with an HTTP response, of any status, exactly one row is appended to
\* the delivery log, with a tenant's store_id, the destination, "manual_test",
\* the status and the response payload, and the caller gets this status and
\* this payload.
C7_ResponseLoggedAndReturned ==
  [][ (TestSendStep /\ sent' = sent + 1 /\ wire'.outcome.kind = "response") =>
        /\ Len(logs') = Len(logs) + 1
        /\ SubSeq(logs', 1, Len(logs)) = logs
        /\ LET row == logs'[Len(logs')]
           IN  /\ row.store_id \in Tenants
               /\ row.to_msisdn = wire'.request.to
               /\ row.template = ManualTest
               /\ row.status = PyStr(wire'.outcome.status)
               /\ JsonLoads(row.error).v = wire'.outcome.payload
        /\ resp'.code = 200
        /\ resp'.body.status = wire'.outcome.status
        /\ resp'.body.data.v = wire'.outcome.payload ]_vars

\* a transport-level failure: no response at all, or a response that is no 2xx
TransportFailure(outcome) ==
  \/ outcome.kind \in {"connect_error", "timeout"}
  \/ outcome.kind = "response" /\ outcome.status \notin 200..299

\* C8 as claimed: whenever an ad-hoc send reaches the transport and the
\* transport fails (a response that is no 2xx, a connect error, a timeout), the
\* handler does not raise: it answers with a status and a payload, and the
\* attempt is a new row of the delivery log.
C8_TransportFailureCaptured ==
  [][ (TestSendStep /\ sent' = sent + 1 /\ TransportFailure(wire'.outcome)) =>
        /\ resp'.code = 200
        /\ Len(logs') = Len(logs) + 1
        /\ logs'[Len(logs')].template = ManualTest ]_vars

\* the step of a POST /webhook
WebhookStep == resp'.op = "webhook"
\* the signature check as the claim has it: no secret configured, or the
\* header is the HMAC of the body under the secret
Signed(req) ==
  SALLA_WEBHOOK_SEC = "" \/ req.sig = HexDigest(SALLA_WEBHOOK_SEC, req.raw)
\* once in the event log, an entry stays as it is
AppendOnly == \A i \in 1..Len(events) : Len(events') >= i /\ events'[i] = events[i]
\* the webhook writes no other table and sends nothing
Passive == UNCHANGED << merchants, store_settings, templates, logs, sent, wire >>
\* the entry of a payload: "event" when the key is present, else "type"
EntryFirstPresent(payload) ==
  [store_id |-> IF payload["store_id"] = JAbsent THEN "unknown" ELSE payload["store_id"].v,
   event_type |-> IF payload["event"] # JAbsent THEN payload["event"].v
                  ELSE IF payload["type"] # JAbsent THEN payload["type"].v ELSE "unknown",
   payload |-> [json |-> payload]]
\* the entry of a payload: "event" when present and not empty, else "type"
EntryFirstNonEmpty(payload) ==
  [store_id |-> IF payload["store_id"] = JAbsent THEN "unknown" ELSE payload["store_id"].v,
   event_type |-> IF payload["event"] # JAbsent /\ payload["event"].v # "" THEN payload["event"].v
                  ELSE IF payload["type"] # JAbsent THEN payload["type"].v ELSE "unknown",
   payload |-> [json |-> payload]]
\* a JSON object whose event, type and store_id, where present, are strings
StringFields(raw) ==
  /\ raw.kind = "object"
  /\ \A k \in {"event", "type", "store_id"} : raw.members[k].t \in {"absent", "str"}

\* C11 (as claimed): every webhook request that passes the signature check
\* appends exactly one event-log entry, with the event type of "event" if
\* present, else of "type", the store_id of the payload or "unknown", and the
\* payload; it changes no other table and sends nothing; a request that fails
\* the check appends nothing; no step changes or removes an existing entry.
C11_PassiveAuditSink ==
  [][ /\ AppendOnly
      /\ WebhookStep =>
           /\ Passive
           /\ IF Signed(inbound')
                THEN events' = Append(events, EntryFirstPresent(inbound'.raw.members))
                ELSE events' = events ]_vars

\* C11 (amended): every webhook request that passes the signature check and
\* whose body is a JSON object with string (or no) event, type and store_id
\* appends exactly one event-log entry, with the event type of "event" if
\* present and not empty, else of "type", else "unknown", the store_id of the
\* payload or "unknown", and the payload; no webhook request changes another
\* table or sends anything; a request that fails the check appends nothing;
\* no step changes or removes an existing entry.
C11_ObjectPayloadRecorded ==
  [][ /\ AppendOnly
      /\ WebhookStep =>
           /\ Passive
           /\ (Signed(inbound') /\ StringFields(inbound'.raw)) =>
                 events' = Append(events, EntryFirstNonEmpty(inbound'.raw.members))
           /\ ~Signed(inbound') => events' = events ]_vars

\* a signed request with an empty "event" was recorded under its "type",
\* after an earlier entry, for an onboarded tenant
C11_Witness ==
  /\ resp = Reply("webhook", 200, NULL)
  /\ SALLA_WEBHOOK_SEC = "change-me"
  /\ inbound.sig = HexDigest("change-me", inbound.raw)
  /\ inbound.raw.members["event"] = JStr("")
  /\ Len(events) = 2
  /\ events[2].event_type = "order.updated"
  /\ events[1].store_id = "store-5"
  /\ merchants # << >>

\* the four recognized placeholders
Recognized == { PLACEHOLDERS[i] : i \in 1..4 }
\* a mapping gives a value to some of the recognized placeholders
EmptyMapping == [p \in {} |-> << >>]
NameOnly == [p \in {PLACEHOLDERS[1]} |-> << "X" >>]
SampleMapping ==
  [p \in Recognized |-> SampleValues[CHOOSE i \in 1..4 : PLACEHOLDERS[i] = p]]
Mappings == {EmptyMapping, NameOnly, SampleMapping}
\* literal substitution: from left to right, every occurrence of a placeholder
\* the mapping has a value for gives way to the value, every other character
\* stays
RECURSIVE SubstituteFrom(_, _, _)
SubstituteFrom(s, i, mapping) ==
  LET starts == { j \in i..Len(s) : \E p \in DOMAIN mapping : StartsWith(s, j, p) }
  IN  IF starts = {} THEN SubSeq(s, i, Len(s))
      ELSE LET j == CHOOSE h \in starts : \A g \in starts : h <= g
               p == CHOOSE q \in DOMAIN mapping : StartsWith(s, j, q)
           IN  SubSeq(s, i, j - 1) \o mapping[p] \o SubstituteFrom(s, j + Len(p), mapping)
Substitute(s, mapping) == SubstituteFrom(s, 1, mapping)
\* a step of updatePreview that changes the preview box
PreviewStep == tpl_body' = tpl_body /\ preview' # preview

Quiescent == \A r \in Requests : pending[r] = Idle
\* the settings row of a store is the whole object of the request that wrote
\* last
LastSettingsStored ==
  \A s \in StoreIds :
    wrote[s].settings # << >> =>
      SelectSettings(store_settings, s) = << JsonDumps(BuildSettings(wrote[s].settings[1])) >>
\* every row of a key of keys holds the body the last request naming the key
\* gave it, and there is such a row
KeyHoldsLastBody(keys) ==
  \A s \in StoreIds : \A k \in keys :
    wrote[s].bodies[k] # << >> =>
      /\ \E p \in 1..Len(templates[s]) : templates[s][p].tkey = k
      /\ \A p \in 1..Len(templates[s]) :
           templates[s][p].tkey = k => templates[s][p].body = wrote[s].bodies[k][1]
\* at most one settings row per store, at most one template row per store and
\* key of keys
OneRowPerStore == \A s \in StoreIds : Len(store_settings[s]) <= 1
OneRowPerKey(keys) ==
  \A s \in StoreIds : \A p, q \in 1..Len(templates[s]) :
    (templates[s][p].tkey \in keys /\ templates[s][p].tkey = templates[s][q].tkey) => p = q

\* C13: when two Save settings or two Save templates requests on one tenant
\* have run, interleaved in any way at their suspension points, the stored
\* settings are the whole settings object of the request that wrote last, each
\* template key holds the body of the last request that wrote the key, and
\* there is one settings row per store and one template row per store and key.
C13_LastWriteWins ==
  Quiescent =>
    /\ LastSettingsStored
    /\ KeyHoldsLastBody(EntryKeys)
    /\ OneRowPerStore
    /\ OneRowPerKey(EntryKeys \cup EventKinds)

\* the same, at every moment, for the entries that carry a key
KeyedLastWriteWins ==
  /\ LastSettingsStored
  /\ KeyHoldsLastBody(EntryKeys \ {NULL})
  /\ OneRowPerStore
  /\ OneRowPerKey((EntryKeys \cup EventKinds) \ {NULL})

\* the rows of the other stores, in id order
Others(ms, sid) == SelectSeq(ms, LAMBDA r : r.store_id # sid)
\* the callback onboarded store sid, which had a tenant row already
ReonboardStep(sid) ==
  /\ resp'.op = "callback"
  /\ resp'.code = 307
  /\ resp'.body = sid
  /\ Matching(sid) # {}
\* the tenant row of sid is unset in both store-level credentials
Unset(ms, sid) ==
  \A i \in 1..Len(ms) :
    ms[i].store_id = sid => ms[i].waba_token = NULL /\ ms[i].waba_phone_id = NULL

\* C14: when the callback runs for a store_id that has a tenant already, the
\* tenant row is rewritten with the tokens of this exchange, its waba_token
\* and waba_phone_id are unset and it is the most recently created row, the
\* rows of the other stores stay, and the settings row and the template rows
\* of the store keep their contents; and while the two are unset, an ad-hoc
\* send for the store goes out with the process-wide credentials or fails
\* with 400 and sends nothing.
C14_ReonboardingReplacesTenant ==
  [][ /\ \A sid \in StoreIds :
           ReonboardStep(sid) =>
             /\ Len(merchants') = Len(merchants)
             /\ Others(merchants', sid) = Others(merchants, sid)
             /\ \E access_tok \in AccessTokens, refresh_tok \in RefreshTokens :
                  /\ StoreIdOf(access_tok) = sid
                  /\ merchants'[Len(merchants')] =
                       [store_id |-> sid, access_token |-> access_tok,
                        refresh_token |-> refresh_tok, waba_token |-> NULL,
                        waba_phone_id |-> NULL, plan |-> "basic"]
             /\ store_settings'[sid] = store_settings[sid]
             /\ templates'[sid] = templates[sid]
      /\ (TestSendStep /\ Matching("store-5") # {} /\ Unset(merchants, "store-5")) =>
             \/ resp'.code = 400 /\ ~Issued /\ logs' = logs
             \/ /\ Issued
                /\ wire'.request.bearer = GLOBAL_WABA_TOKEN
                /\ wire'.request.url_phone_id = GLOBAL_WABA_PHONE_ID ]_vars

\* store-5, onboarded with tokA before store-7, with credentials, settings and
\* a template of its own, was onboarded again with tokC: its row is the newest
\* and has no credentials, and its settings and template are the customised ones
C14_Witness ==
  /\ resp.op = "callback"
  /\ resp.code = 307
  /\ resp.body = "store-5"
  /\ Len(merchants) = 2
  /\ merchants[1].store_id = "store-7"
  /\ merchants[2].store_id = "store-5"
  /\ merchants[2].access_token = "tokC"
  /\ merchants[2].waba_token = NULL
  /\ Customised("store-5")
  /\ HasTemplate("store-5", "order_paid", "B1")

====
